---- MODULE Spec2Model ----
(***************************************************************************)
(* Model of src/mod.ts: the executability predicate isExecutable /         *)
(* isExecutableSync with its two platform rules isExecutablePosix and      *)
(* isExecutableWindows.                                                    *)
(*                                                                         *)
(* Strings that the code inspects character by character (paths, PATHEXT   *)
(* entries) are sequences of one-character strings.  Numbers that may be   *)
(* null or undefined in the code carry the value Null.                     *)
(***************************************************************************)
EXTENDS Integers, Sequences, FiniteSets, TLC

\* ---------------------------------------------------------------- bounds
\* user and group ids range over 0..MaxId
MaxId == 1
\* paths have at most MaxPathLen characters
MaxPathLen == 4
\* the PATHEXT list has at most MaxExts entries
MaxExts == 2
\* caller slots that may hold a query in flight
NTasks == 2

\* ------------------------------------------------------------ value sets
\* null / undefined where the code expects a number
Null == -1

Ids == 0 .. MaxId
MaybeIds == {Null} \cup Ids
Tasks == 1 .. NTasks

SeqsUpTo(S, n) == UNION {[1 .. k -> S] : k \in 0 .. n}

\* The characters paths are built from: a dot, both Windows separators,
\* the drive colon, a lower-case and an upper-case letter.
Chars == {".", "/", "\\", ":", "e", "E"}
Paths == SeqsUpTo(Chars, MaxPathLen)

\* PATHEXT entries the environment may hold, and the lists built from them:
\* null, or a list that names no entry twice.
ExtEntries == {<<".", "e">>, <<".", "E">>}
NullPathExt == [isNull |-> TRUE, list |-> <<>>]
PathExtLists ==
    {NullPathExt}
    \cup {[isNull |-> FALSE, list |-> l] :
            l \in {x \in SeqsUpTo(ExtEntries, MaxExts) :
                      \A i \in 1 .. Len(x), j \in 1 .. Len(x) : x[i] = x[j] => i = j}}

\* ------------------------------------------------------------ state
VARIABLES
    isOSWindows,   \* platform === "win32", fixed when the module loads
    hasDeno,       \* typeof Deno !== "undefined"
    envPathExt,    \* what envPathExt.get() yields: null or the PATHEXT list
    procUid,       \* what getuid / Deno.uid yields (Null: not available)
    procGid,       \* what getgid / Deno.gid yields (Null: not available)
    options,       \* per task: the options object the call was given
    pc,            \* per task: "idle", "awaiting" (suspended at the stat), "done"
    fn,            \* per task: which variant was called
    filePath,      \* per task: the filePath argument
    mayNotExist,   \* per task: the destructured local of lines 98 / 132
    statGiven,     \* per task: what the stat collaborator delivered
    result,        \* per task: the outcome (return value or thrown error)
    call           \* the last direct call of a platform rule, with its outcome

vars == <<isOSWindows, hasDeno, envPathExt, procUid, procGid, options, pc, fn,
          filePath, mayNotExist, statGiven, result, call>>

hostVars == <<isOSWindows, hasDeno, envPathExt, procUid, procGid>>
taskVars == <<options, pc, fn, filePath, mayNotExist, statGiven, result>>

\* ------------------------------------------------------------ outcomes
NoError == [kind |-> "none", denoNotFound |-> FALSE, code |-> "", message |-> ""]

\* new Error(message): no code, not a Deno.errors.NotFound
PlainError(kind, message) ==
    [kind |-> kind, denoNotFound |-> FALSE, code |-> "", message |-> message]

Ret(b) == [type |-> "return", value |-> b, error |-> NoError]
Throw(e) == [type |-> "throw", value |-> FALSE, error |-> e]
NoOutcome == [type |-> "none", value |-> FALSE, error |-> NoError]

\* ------------------------------------------------------------ operators of JS
\* a ?? b
Coalesce(a, b) == IF a # Null THEN a ELSE b

RECURSIVE BitAnd(_, _)
\* a & b on non-negative integers
BitAnd(a, b) ==
    IF a = 0 \/ b = 0 THEN 0
    ELSE (a % 2) * (b % 2) + 2 * BitAnd(a \div 2, b \div 2)

RECURSIVE BitOr(_, _)
\* a | b on non-negative integers
BitOr(a, b) ==
    IF a = 0 THEN b
    ELSE IF b = 0 THEN a
    ELSE (IF a % 2 = 1 \/ b % 2 = 1 THEN 1 ELSE 0) + 2 * BitOr(a \div 2, b \div 2)

\* String.prototype.toLowerCase on one character
LowerChar(c) == IF c = "E" THEN "e" ELSE c
\* String.prototype.toLowerCase
ToLowerCase(s) == [i \in 1 .. Len(s) |-> LowerChar(s[i])]

\* Array.prototype.includes
Includes(list, x) == \E i \in 1 .. Len(list) : list[i] = x

\* ------------------------------------------------------------ path.extname
\* node:path is the win32 flavour wherever isExecutableWindows runs.
IsPathSeparator(c) == c = "/" \/ c = "\\"
IsWindowsDeviceRoot(c) == c \in {"e", "E"}

RECURSIVE ExtnameLoop(_, _, _, _)
\* The backwards scan of win32.extname over the JS indices i = len-1 .. start;
\* st holds its locals startDot, startPart, end, matchedSlash, preDotState.
ExtnameLoop(path, i, start, st) ==
    IF i < start THEN st
    ELSE LET c == path[i + 1] IN
         IF IsPathSeparator(c)
         THEN IF ~st.matchedSlash
              THEN [st EXCEPT !.startPart = i + 1]
              ELSE ExtnameLoop(path, i - 1, start, st)
         ELSE LET st1 == IF st.end = -1
                         THEN [st EXCEPT !.matchedSlash = FALSE, !.end = i + 1]
                         ELSE st
                  st2 == IF c = "."
                         THEN IF st1.startDot = -1
                              THEN [st1 EXCEPT !.startDot = i]
                              ELSE IF st1.preDotState # 1
                                   THEN [st1 EXCEPT !.preDotState = 1]
                                   ELSE st1
                         ELSE IF st1.startDot # -1
                              THEN [st1 EXCEPT !.preDotState = -1]
                              ELSE st1
              IN ExtnameLoop(path, i - 1, start, st2)

\* pathExtname(filePath): the extension of the last path component.
Extname(path) ==
    LET start == IF Len(path) >= 2 /\ path[2] = ":" /\ IsWindowsDeviceRoot(path[1])
                 THEN 2 ELSE 0
        st0 == [startDot |-> -1, startPart |-> start, end |-> -1,
                matchedSlash |-> TRUE, preDotState |-> 0]
        st == ExtnameLoop(path, Len(path) - 1, start, st0)
    IN IF \/ st.startDot = -1
          \/ st.end = -1
          \/ st.preDotState = 0
          \/ (st.preDotState = 1 /\ st.startDot = st.end - 1
                                 /\ st.startDot = st.startPart + 1)
       THEN <<>>
       ELSE SubSeq(path, st.startDot + 1, st.end)

\* ------------------------------------------------------------ isExecutablePosix
g == 8
o == 1
u == 64

\* options.gid ?? (Deno absent ? (getgid?.() ?? null) : Deno.gid())
OwnGid(opts) ==
    Coalesce(opts.gid, IF ~hasDeno THEN Coalesce(procGid, Null) ELSE procGid)

\* OwnUid with || in place of ??: an override of 0 falls through to the process
OwnUidFalsy(opts) ==
    IF opts.uid # Null /\ opts.uid # 0 THEN opts.uid
    ELSE IF ~hasDeno THEN Coalesce(procUid, Null) ELSE procUid

\* options.uid ?? (Deno absent ? (getuid?.() ?? null) : Deno.uid())
OwnUid(opts) ==
    Coalesce(opts.uid, IF ~hasDeno THEN Coalesce(procUid, Null) ELSE procUid)

\* PosixModeCheck without its last disjunct (no superuser bypass)
PosixModeCheckNoSuperuser(pathMode, pathGid, pathUid, ownGid, ownUid) ==
    \/ BitAnd(pathMode, o) # 0
    \/ (BitAnd(pathMode, g) # 0 /\ ownGid = pathGid)
    \/ (BitAnd(pathMode, u) # 0 /\ pathUid = ownUid)

\* PosixModeCheck with | typed for & in its first disjunct
PosixModeCheckOrTypo(pathMode, pathGid, pathUid, ownGid, ownUid) ==
    \/ BitOr(pathMode, o) # 0
    \/ (BitAnd(pathMode, g) # 0 /\ ownGid = pathGid)
    \/ (BitAnd(pathMode, u) # 0 /\ pathUid = ownUid)
    \/ (BitAnd(pathMode, BitOr(u, g)) # 0 /\ ownUid = 0)

\* the returned expression of isExecutablePosix
PosixModeCheck(pathMode, pathGid, pathUid, ownGid, ownUid) ==
    \/ BitAnd(pathMode, o) # 0
    \/ (BitAnd(pathMode, g) # 0 /\ ownGid = pathGid)
    \/ (BitAnd(pathMode, u) # 0 /\ pathUid = ownUid)
    \/ (BitAnd(pathMode, BitOr(u, g)) # 0 /\ ownUid = 0)

\* isExecutablePosix with the isFile test moved below the null checks
IsExecutablePosixChecksFirst(stat, opts) ==
    LET ownGid == OwnGid(opts)
        ownUid == OwnUid(opts)
    IN IF ownGid = Null
       THEN Throw(PlainError("IdentityUnavailable",
                             "Unable to get the group ID of the process!"))
       ELSE IF ownUid = Null
       THEN Throw(PlainError("IdentityUnavailable",
                             "Unable to get the user ID of the process!"))
       ELSE IF stat.gid = Null
       THEN Throw(PlainError("MetadataUnavailable",
                             "Unable to get the group ID of the file!"))
       ELSE IF stat.mode = Null
       THEN Throw(PlainError("MetadataUnavailable",
                             "Unable to get the mode of the file!"))
       ELSE IF stat.uid = Null
       THEN Throw(PlainError("MetadataUnavailable",
                             "Unable to get the user ID of the file!"))
       ELSE IF ~stat.isFile THEN Ret(FALSE)
       ELSE Ret(PosixModeCheck(stat.mode, stat.gid, stat.uid, ownGid, ownUid))

\* isExecutablePosix with the messages of the file's group ID and user ID swapped
IsExecutablePosixSwappedMessages(stat, opts) ==
    IF ~stat.isFile THEN Ret(FALSE)
    ELSE LET ownGid == OwnGid(opts)
             ownUid == OwnUid(opts)
         IN IF ownGid = Null
            THEN Throw(PlainError("IdentityUnavailable",
                                  "Unable to get the group ID of the process!"))
            ELSE IF ownUid = Null
            THEN Throw(PlainError("IdentityUnavailable",
                                  "Unable to get the user ID of the process!"))
            ELSE IF stat.gid = Null
            THEN Throw(PlainError("MetadataUnavailable",
                                  "Unable to get the user ID of the file!"))
            ELSE IF stat.mode = Null
            THEN Throw(PlainError("MetadataUnavailable",
                                  "Unable to get the mode of the file!"))
            ELSE IF stat.uid = Null
            THEN Throw(PlainError("MetadataUnavailable",
                                  "Unable to get the group ID of the file!"))
            ELSE Ret(PosixModeCheck(stat.mode, stat.gid, stat.uid, ownGid, ownUid))

IsExecutablePosix(stat, opts) ==
    IF ~stat.isFile THEN Ret(FALSE)
    ELSE LET ownGid == OwnGid(opts)
             ownUid == OwnUid(opts)
         IN IF ownGid = Null
            THEN Throw(PlainError("IdentityUnavailable",
                                  "Unable to get the group ID of the process!"))
            ELSE IF ownUid = Null
            THEN Throw(PlainError("IdentityUnavailable",
                                  "Unable to get the user ID of the process!"))
            ELSE IF stat.gid = Null
            THEN Throw(PlainError("MetadataUnavailable",
                                  "Unable to get the group ID of the file!"))
            ELSE IF stat.mode = Null
            THEN Throw(PlainError("MetadataUnavailable",
                                  "Unable to get the mode of the file!"))
            ELSE IF stat.uid = Null
            THEN Throw(PlainError("MetadataUnavailable",
                                  "Unable to get the user ID of the file!"))
            ELSE Ret(PosixModeCheck(stat.mode, stat.gid, stat.uid, ownGid, ownUid))

\* ------------------------------------------------------------ isExecutableWindows
\* pathExts.map(pathExt => pathExt.toLowerCase()): a new array
MapToLowerCase(list) == [i \in 1 .. Len(list) |-> ToLowerCase(list[i])]

\* isExecutableWindows comparing against the PATHEXT entries as they are
IsExecutableWindowsEntriesAsIs(stat, path) ==
    IF ~stat.isFile THEN Ret(FALSE)
    ELSE IF envPathExt.isNull THEN Ret(TRUE)
    ELSE Ret(Includes(envPathExt.list, ToLowerCase(Extname(path))))

IsExecutableWindows(stat, path) ==
    IF ~stat.isFile THEN Ret(FALSE)
    ELSE IF envPathExt.isNull THEN Ret(TRUE)
    ELSE Ret(Includes(MapToLowerCase(envPathExt.list), ToLowerCase(Extname(path))))

\* ------------------------------------------------------------ the stat collaborator
\* A Stats object: isFile(), mode, uid, gid.
NoStat == [isFile |-> FALSE, mode |-> Null, uid |-> Null, gid |-> Null]

StatOk(st) == [ok |-> TRUE, stat |-> st, error |-> NoError]
StatFail(e) == [ok |-> FALSE, stat |-> NoStat, error |-> e]
NoStatResult == [ok |-> FALSE, stat |-> NoStat, error |-> NoError]

\* The failures fsStat / fsStatSync raise.  kind is what happened; the code
\* sees only code and, under Deno, whether the error is a Deno.errors.NotFound.
\* Node raises ENOENT and EACCES system errors; under Deno the not-found
\* failure reaches the caller either as a Deno.errors.NotFound or converted to
\* a Node-style ENOENT error, depending on the Deno version.
StatErrors ==
    {[kind |-> "PathNotFound", denoNotFound |-> d, code |-> "ENOENT",
      message |-> "no such file or directory"] : d \in {FALSE, hasDeno}}
    \cup {[kind |-> "PermissionDenied", denoNotFound |-> FALSE, code |-> "EACCES",
           message |-> "permission denied"],
          [kind |-> "Other", denoNotFound |-> FALSE, code |-> "ELOOP",
           message |-> "too many symbolic links encountered"]}

\* ------------------------------------------------------------ isExecutable
\* const { mayNotExist = false } = options
MayNotExistOf(opts) == opts.mayNotExist = "true"

\* isExecutable after the await with a catch clause that forgets mayNotExist
IsExecutableAfterAwaitAnyCall(path, opts, mayNotExistLocal, sr) ==
    LET tried == IF ~sr.ok THEN Throw(sr.error)
                 ELSE IF isOSWindows THEN IsExecutableWindows(sr.stat, path)
                 ELSE IsExecutablePosix(sr.stat, opts)
    IN IF tried.type = "throw"
       THEN IF (hasDeno /\ tried.error.denoNotFound) \/ tried.error.code = "EACCES"
            THEN Ret(FALSE)
            ELSE Throw(tried.error)
       ELSE tried

\* isExecutable from the point where the awaited fsStat settles: the rest of
\* the try block and the catch clause.
IsExecutableAfterAwait(path, opts, mayNotExistLocal, sr) ==
    LET tried == IF ~sr.ok THEN Throw(sr.error)
                 ELSE IF isOSWindows THEN IsExecutableWindows(sr.stat, path)
                 ELSE IsExecutablePosix(sr.stat, opts)
    IN IF tried.type = "throw"
       THEN IF mayNotExistLocal /\ (\/ (hasDeno /\ tried.error.denoNotFound)
                                    \/ tried.error.code = "EACCES")
            THEN Ret(FALSE)
            ELSE Throw(tried.error)
       ELSE tried

\* ------------------------------------------------------------ isExecutableSync
\* isExecutableSync with a catch clause that lacks the Deno.errors.NotFound test
IsExecutableSyncNoNotFound(path, opts, sr) ==
    LET mayNotExistLocal == opts.mayNotExist = "true"
        pathStat == sr.stat
        body == IF sr.ok
                THEN IF isOSWindows
                     THEN IsExecutableWindows(pathStat, path)
                     ELSE IsExecutablePosix(pathStat, opts)
                ELSE Throw(sr.error)
    IN CASE body.type = "return" -> body
         [] body.type = "throw" /\ mayNotExistLocal /\ body.error.code = "EACCES"
              -> Ret(FALSE)
         [] OTHER -> Throw(body.error)

IsExecutableSync(path, opts, sr) ==
    LET mayNotExistLocal == opts.mayNotExist = "true"
        pathStat == sr.stat
        body == IF sr.ok
                THEN IF isOSWindows
                     THEN IsExecutableWindows(pathStat, path)
                     ELSE IsExecutablePosix(pathStat, opts)
                ELSE Throw(sr.error)
    IN CASE body.type = "return" -> body
         [] body.type = "throw" /\ mayNotExistLocal
              /\ ((hasDeno /\ body.error.denoNotFound) \/ body.error.code = "EACCES")
              -> Ret(FALSE)
         [] OTHER -> Throw(body.error)

\* ------------------------------------------------------------ input domains
OptionsOf(m, uids, gids) == [mayNotExist : m, uid : uids, gid : gids]
NoOptions == [mayNotExist |-> "absent", uid |-> Null, gid |-> Null]
MayNotExistValues == {"absent", "true", "false"}

\* every combination of the three execute bits, and two usual file modes
\* (0o100644, 0o100755) with type and read/write bits around them
Modes == {a + b + c : a \in {0, o}, b \in {0, g}, c \in {0, u}} \cup {33188, 33261}

\* direct calls of isExecutablePosix
PosixStats == [isFile : BOOLEAN, mode : Modes \cup {Null}, uid : MaybeIds, gid : MaybeIds]
PosixOptions == OptionsOf({"absent"}, MaybeIds, MaybeIds)

\* direct calls of isExecutableWindows: Windows reports uid 0 and gid 0
WindowsStats == [isFile : BOOLEAN, mode : {0, 33206}, uid : {0}, gid : {0}]

\* queries on a POSIX-like host; a file may belong to a user that is neither
\* the process's nor an override
QueryModes == {0, o, g, u}
QueryStats ==
    [isFile : BOOLEAN, mode : QueryModes, uid : 0 .. MaxId + 1, gid : Ids]
    \cup {[isFile |-> TRUE, mode |-> u, uid |-> Null, gid |-> 0],
          [isFile |-> TRUE, mode |-> Null, uid |-> 0, gid |-> 0],
          [isFile |-> TRUE, mode |-> u, uid |-> 0, gid |-> Null],
          [isFile |-> FALSE, mode |-> Null, uid |-> Null, gid |-> Null]}
QueryOptions == OptionsOf(MayNotExistValues, MaybeIds, MaybeIds)
QueryPosixPaths == {<<"e">>}

\* queries on a Windows host
QueryWindowsOptions == OptionsOf(MayNotExistValues, {Null, 0}, {Null})
QueryWindowsPaths == {<<"e", ".", "e">>, <<"e", ".", "E">>, <<".", "e">>, <<"e">>}

HostPaths == IF isOSWindows THEN QueryWindowsPaths ELSE QueryPosixPaths
HostOptions == IF isOSWindows THEN QueryWindowsOptions ELSE QueryOptions
HostStatResults ==
    {StatFail(e) : e \in StatErrors}
    \cup {StatOk(st) : st \in IF isOSWindows THEN WindowsStats ELSE QueryStats}

\* concurrent queries: a few inputs of every kind
ConcOptions ==
    {NoOptions, [mayNotExist |-> "true", uid |-> 0, gid |-> Null]}
ConcStatResults ==
    {StatFail(e) : e \in {x \in StatErrors : x.kind \in {"PermissionDenied", "Other"}}}
    \cup {StatOk([isFile |-> TRUE, mode |-> u, uid |-> 1, gid |-> 0])}

\* ------------------------------------------------------------ hosts
\* The ambient identity is available or not as a whole: getuid and getgid are
\* both present or both missing, Deno.uid() and Deno.gid() both null or both not.
AmbientIds == {<<Null, Null>>} \cup (Ids \X Ids)

PosixHost ==
    /\ isOSWindows = FALSE
    /\ hasDeno \in BOOLEAN
    /\ \E a \in AmbientIds : procUid = a[1] /\ procGid = a[2]
    /\ envPathExt = NullPathExt

\* On Windows process.getuid and process.getgid do not exist and Deno.uid()
\* and Deno.gid() yield null.
WindowsHost ==
    /\ isOSWindows = TRUE
    /\ hasDeno \in BOOLEAN
    /\ procUid = Null /\ procGid = Null
    /\ envPathExt \in PathExtLists

NoCall ==
    [fn |-> "none", stat |-> NoStat, options |-> NoOptions, filePath |-> <<>>,
     outcome |-> NoOutcome]

TasksIdle ==
    /\ options = [t \in Tasks |-> NoOptions]
    /\ pc = [t \in Tasks |-> "idle"]
    /\ fn = [t \in Tasks |-> "none"]
    /\ filePath = [t \in Tasks |-> <<>>]
    /\ mayNotExist = [t \in Tasks |-> FALSE]
    /\ statGiven = [t \in Tasks |-> NoStatResult]
    /\ result = [t \in Tasks |-> NoOutcome]

Init ==
    /\ PosixHost \/ WindowsHost
    /\ TasksIdle
    /\ call = NoCall

\* ------------------------------------------------------------ actions
\* CallAsync with mayNotExist kept in one module-level variable that every
\* call overwrites
CallAsyncSharedLocal(t, p, opts) ==
    /\ pc[t] = "idle"
    /\ pc' = [pc EXCEPT ![t] = "awaiting"]
    /\ fn' = [fn EXCEPT ![t] = "isExecutable"]
    /\ filePath' = [filePath EXCEPT ![t] = p]
    /\ options' = [options EXCEPT ![t] = opts]
    /\ mayNotExist' = [t2 \in Tasks |-> MayNotExistOf(opts)]
    /\ statGiven' = [statGiven EXCEPT ![t] = NoStatResult]
    /\ result' = [result EXCEPT ![t] = NoOutcome]
    /\ UNCHANGED <<hostVars, call>>

\* A caller invokes isExecutable(p, opts): the function runs up to the await
\* of fsStat and suspends there.
CallAsync(t, p, opts) ==
    /\ pc[t] = "idle"
    /\ pc' = [pc EXCEPT ![t] = "awaiting"]
    /\ fn' = [fn EXCEPT ![t] = "isExecutable"]
    /\ filePath' = [filePath EXCEPT ![t] = p]
    /\ options' = [options EXCEPT ![t] = opts]
    /\ mayNotExist' = [mayNotExist EXCEPT ![t] = MayNotExistOf(opts)]
    /\ statGiven' = [statGiven EXCEPT ![t] = NoStatResult]
    /\ result' = [result EXCEPT ![t] = NoOutcome]
    /\ UNCHANGED <<hostVars, call>>

\* The stat of a suspended isExecutable settles with sr and the function runs
\* to its end.
Resume(t, sr) ==
    /\ pc[t] = "awaiting"
    /\ pc' = [pc EXCEPT ![t] = "done"]
    /\ statGiven' = [statGiven EXCEPT ![t] = sr]
    /\ result' = [result EXCEPT
                    ![t] = IsExecutableAfterAwait(filePath[t], options[t], mayNotExist[t], sr)]
    /\ UNCHANGED <<hostVars, call, fn, filePath, options, mayNotExist>>

\* A caller invokes isExecutableSync(p, opts); fsStatSync yields sr and the
\* function returns or throws before anything else runs.
CallSync(t, p, opts, sr) ==
    /\ pc[t] = "idle"
    /\ pc' = [pc EXCEPT ![t] = "done"]
    /\ fn' = [fn EXCEPT ![t] = "isExecutableSync"]
    /\ filePath' = [filePath EXCEPT ![t] = p]
    /\ options' = [options EXCEPT ![t] = opts]
    /\ mayNotExist' = [mayNotExist EXCEPT ![t] = (opts.mayNotExist = "true")]
    /\ statGiven' = [statGiven EXCEPT ![t] = sr]
    /\ result' = [result EXCEPT ![t] = IsExecutableSync(p, opts, sr)]
    /\ UNCHANGED <<hostVars, call>>

\* isExecutablePosix applied to a Stats object and options.
CallPosix(st, opts) ==
    /\ ~isOSWindows
    /\ call.fn = "none"
    /\ call' = [fn |-> "isExecutablePosix", stat |-> st, options |-> opts,
                filePath |-> <<>>, outcome |-> IsExecutablePosix(st, opts)]
    /\ UNCHANGED <<hostVars, taskVars>>

\* isExecutableWindows applied to a Stats object and a path.
CallWindows(st, p) ==
    /\ isOSWindows
    /\ call.fn = "none"
    /\ call' = [fn |-> "isExecutableWindows", stat |-> st, options |-> NoOptions,
                filePath |-> p, outcome |-> IsExecutableWindows(st, p)]
    /\ UNCHANGED <<hostVars, taskVars>>

\* ------------------------------------------------------------ specifications
Main == CHOOSE t \in Tasks : \A t2 \in Tasks : t <= t2

\* One query at a time, of either variant, over the wide input domains.
Next ==
    \/ /\ pc[Main] = "idle"
       /\ \E p \in HostPaths, opts \in HostOptions : CallAsync(Main, p, opts)
    \/ /\ pc[Main] = "awaiting"
       /\ \E sr \in HostStatResults : Resume(Main, sr)
    \/ /\ pc[Main] = "idle"
       /\ \E p \in HostPaths, opts \in HostOptions, sr \in HostStatResults :
             CallSync(Main, p, opts, sr)

Spec == Init /\ [][Next]_vars

\* The two platform rules called directly.
NextRules ==
    \/ /\ ~isOSWindows /\ call.fn = "none"
       /\ \E st \in PosixStats, opts \in PosixOptions : CallPosix(st, opts)
    \/ /\ isOSWindows /\ call.fn = "none"
       /\ \E st \in WindowsStats, p \in Paths : CallWindows(st, p)

SpecRules == Init /\ [][NextRules]_vars

\* Asynchronous queries in flight together.
InitConc ==
    /\ \/ PosixHost /\ procUid # Null
       \/ WindowsHost /\ envPathExt = [isNull |-> FALSE, list |-> <<<<".", "E">>>>]
    /\ TasksIdle
    /\ call = NoCall

NextConc ==
    \/ \E t \in Tasks :
          /\ pc[t] = "idle"
          /\ \E p \in HostPaths, opts \in ConcOptions : CallAsync(t, p, opts)
    \/ \E t \in Tasks :
          /\ pc[t] = "awaiting"
          /\ \E sr \in ConcStatResults : Resume(t, sr)

SpecConc == InitConc /\ [][NextConc]_vars

\* ============================================================ properties
\* Definitions the properties share.  They restate what the claims say, in
\* terms that do not use the operators of the model above.

\* bit k of mode, k a power of two given by its value
HasBit(mode, k) == (mode \div k) % 2 = 1

\* the executability rule as the specification words it
ExecAllowed(mode, fileUid, fileGid, uid, gid) ==
    \/ HasBit(mode, 1)
    \/ (HasBit(mode, 8) /\ gid = fileGid)
    \/ (HasBit(mode, 64) /\ uid = fileUid)
    \/ ((HasBit(mode, 64) \/ HasBit(mode, 8)) /\ uid = 0)

\* the identity a call decides with: the override when present, else the process's
IdentityUid(opts) == IF opts.uid \in Ids THEN opts.uid ELSE procUid
IdentityGid(opts) == IF opts.gid \in Ids THEN opts.gid ELSE procGid
IdentityResolved(opts) == IdentityUid(opts) # Null /\ IdentityGid(opts) # Null

MetadataPresent(st) == st.mode # Null /\ st.uid # Null /\ st.gid # Null

Max(S) == CHOOSE x \in S : \A y \in S : y <= x

PosixCall == call.fn = "isExecutablePosix"
WindowsCall == call.fn = "isExecutableWindows"

\* ------------------------------------------------------------ C3
\* C3: for a regular file with mode and owner ids present and a resolved
\* identity, isExecutablePosix returns true exactly when the other-execute bit
\* is set, or the group-execute bit is set and the gid is the owner's, or the
\* owner-execute bit is set and the uid is the owner's, or one of the owner and
\* group execute bits is set and the uid is 0.
C3_PosixRule ==
    (PosixCall /\ call.stat.isFile /\ MetadataPresent(call.stat)
               /\ IdentityResolved(call.options))
    => call.outcome = Ret(ExecAllowed(call.stat.mode, call.stat.uid, call.stat.gid,
                                      IdentityUid(call.options),
                                      IdentityGid(call.options)))

\* the superuser bypass: uid 0, mode 0o100, a file of another user and group
C3_Witness ==
    /\ PosixCall /\ call.stat.isFile
    /\ call.stat.mode = 64 /\ call.stat.uid = 1 /\ call.stat.gid = 1
    /\ IdentityUid(call.options) = 0 /\ IdentityGid(call.options) = 0
    /\ call.outcome = Ret(TRUE)

\* ------------------------------------------------------------ C4
\* the substring of s from its last "." to its end, empty if s has no "."
FromLastDot(s) ==
    LET dots == {i \in 1 .. Len(s) : s[i] = "."}
    IN IF dots = {} THEN <<>> ELSE SubSeq(s, Max(dots), Len(s))

\* the last component of a path: what lies between the last separator and the
\* end, a drive prefix and trailing separators set aside
LastComponent(path) ==
    LET drive == IF Len(path) >= 2 /\ path[2] = ":" /\ path[1] \in {"e", "E"}
                 THEN 2 ELSE 0
        solid == {i \in drive + 1 .. Len(path) : path[i] \notin {"/", "\\"}}
    IN IF solid = {} THEN <<>>
       ELSE LET last == Max(solid)
                seps == {i \in drive + 1 .. last : path[i] \in {"/", "\\"}}
                first == IF seps = {} THEN drive + 1 ELSE Max(seps) + 1
            IN SubSeq(path, first, last)

\* the extension of a path: its last component from the last "." on, empty when
\* that "." is the component's first character or the component is ".."
ExtensionOf(path) ==
    LET c == LastComponent(path)
        ext == FromLastDot(c)
    IN IF Len(ext) = Len(c) \/ c = <<".", ".">> THEN <<>> ELSE ext

LowerOf(s) == [i \in 1 .. Len(s) |-> IF s[i] = "E" THEN "e" ELSE s[i]]

MatchesSomeEntry(ext) ==
    \E i \in 1 .. Len(envPathExt.list) : LowerOf(envPathExt.list[i]) = LowerOf(ext)

\* C4 as stated: for a regular file, true when the list is absent, else true
\* exactly when the path from its last "." on matches an entry, case aside.
C4_AsStated ==
    (WindowsCall /\ call.stat.isFile)
    => call.outcome = Ret(envPathExt.isNull \/ MatchesSomeEntry(FromLastDot(call.filePath)))

\* C4 (amended): for a regular file, true when the list is absent, else true
\* exactly when the extension of the path's last component (from its last "."
\* on, trailing separators and a drive prefix set aside; empty when that "."
\* begins the component or the component is "..") matches an entry, case aside.
C4_WindowsRule ==
    (WindowsCall /\ call.stat.isFile)
    => call.outcome = Ret(envPathExt.isNull \/ MatchesSomeEntry(ExtensionOf(call.filePath)))

\* an upper-case extension matched by a lower-case entry that is not the first
C4_Witness ==
    /\ WindowsCall /\ call.stat.isFile
    /\ ~envPathExt.isNull
    /\ call.filePath = <<"e", ".", "E">>
    /\ envPathExt.list = <<<<".", "e">>>>
    /\ call.outcome = Ret(TRUE)

\* ------------------------------------------------------------ C5
\* C5: for metadata that is not a regular file both rules return false and
\* raise nothing, whatever the mode, the owner ids, the identity, the path and
\* the extension list.
C5_NotRegularFile ==
    ((PosixCall \/ WindowsCall) /\ ~call.stat.isFile) => call.outcome = Ret(FALSE)

\* not a regular file, no mode, no identity: still false
C5_Witness ==
    /\ PosixCall /\ ~call.stat.isFile
    /\ call.stat.mode = Null
    /\ ~IdentityResolved(call.options)
    /\ call.outcome = Ret(FALSE)

\* ------------------------------------------------------------ C6
\* C6 as stated: for mode 0o000 both rules return false for any identity that
\* is not the superuser.
C6_AsStated ==
    /\ (PosixCall /\ call.stat.mode = 0 /\ IdentityResolved(call.options)
                  /\ IdentityUid(call.options) # 0)
       => call.outcome = Ret(FALSE)
    /\ (WindowsCall /\ call.stat.mode = 0) => call.outcome = Ret(FALSE)

\* C6 (amended): for mode 0o000 and owner ids present, the POSIX rule returns
\* false for any resolved identity that is not the superuser; the Windows rule
\* does not read the mode: for mode 0o000 as for any other it decides by
\* isRegularFile and the extension list alone.
C6_ModeZero ==
    /\ (PosixCall /\ call.stat.mode = 0 /\ call.stat.uid # Null /\ call.stat.gid # Null
                  /\ IdentityResolved(call.options) /\ IdentityUid(call.options) # 0)
       => call.outcome = Ret(FALSE)
    /\ (WindowsCall /\ call.stat.mode = 0)
       => call.outcome = Ret(/\ call.stat.isFile
                             /\ (envPathExt.isNull
                                 \/ MatchesSomeEntry(ExtensionOf(call.filePath))))

\* the owner asks about their own regular file of mode 0o000
C6_Witness ==
    /\ PosixCall /\ call.stat.isFile /\ call.stat.mode = 0
    /\ call.stat.uid = 1 /\ call.stat.gid = 1
    /\ IdentityUid(call.options) = 1 /\ IdentityGid(call.options) = 1
    /\ call.outcome = Ret(FALSE)

\* ------------------------------------------------------------ C8
\* the attributes of the metadata that are absent, by the words the messages use
MissingAttributeMessages(st) ==
    {m \in {"Unable to get the group ID of the file!",
            "Unable to get the mode of the file!",
            "Unable to get the user ID of the file!"} :
        \/ (m = "Unable to get the group ID of the file!" /\ st.gid = Null)
        \/ (m = "Unable to get the mode of the file!" /\ st.mode = Null)
        \/ (m = "Unable to get the user ID of the file!" /\ st.uid = Null)}

FailsNamingMissing(st, outcome) ==
    /\ outcome.type = "throw"
    /\ outcome.error.kind = "MetadataUnavailable"
    /\ outcome.error.message \in MissingAttributeMessages(st)

\* C8 as stated: whenever mode, owner uid or owner gid is absent the POSIX rule
\* fails with MetadataUnavailable naming a missing attribute, for every value
\* of isRegularFile and whether or not the identity resolves.
C8_AsStated ==
    (PosixCall /\ ~MetadataPresent(call.stat)) => FailsNamingMissing(call.stat, call.outcome)

\* C8 (amended): whenever the file is a regular file, the identity resolves,
\* and mode, owner uid or owner gid is absent, the POSIX rule fails with
\* MetadataUnavailable naming a missing attribute.
C8_MetadataUnavailable ==
    (PosixCall /\ call.stat.isFile /\ IdentityResolved(call.options)
               /\ ~MetadataPresent(call.stat))
    => FailsNamingMissing(call.stat, call.outcome)

\* only the owner uid is absent, and the failure names it
C8_Witness ==
    /\ PosixCall /\ call.stat.isFile /\ IdentityResolved(call.options)
    /\ call.stat.uid = Null /\ call.stat.gid # Null /\ call.stat.mode # Null
    /\ call.outcome.type = "throw"
    /\ call.outcome.error.message = "Unable to get the user ID of the file!"

\* ------------------------------------------------------------ queries
Done(t) == pc[t] = "done"
StatFailedAs(t, kinds) == ~statGiven[t].ok /\ statGiven[t].error.kind \in kinds
AskedMayNotExist(t) == options[t].mayNotExist = "true"

\* the error raised inside the try block of task t's query, NoError if none:
\* the stat's failure, or else what the platform's rule throws
RaisedError(t) ==
    IF ~statGiven[t].ok THEN statGiven[t].error
    ELSE LET ruled == IF isOSWindows
                      THEN IsExecutableWindows(statGiven[t].stat, filePath[t])
                      ELSE IsExecutablePosix(statGiven[t].stat, options[t])
         IN IF ruled.type = "throw" THEN ruled.error ELSE NoError

\* ------------------------------------------------------------ C1
\* C1: whenever the stat fails with "path does not exist" or "permission
\* denied" and options.mayNotExist is true, the query (of either variant, on
\* every runtime and platform) returns false.
C1_AsStated ==
    \A t \in Tasks :
        (Done(t) /\ StatFailedAs(t, {"PathNotFound", "PermissionDenied"})
                 /\ AskedMayNotExist(t))
        => result[t] = Ret(FALSE)

\* ------------------------------------------------------------ C2
\* C2: a query whose try block raised an error, and for which it is not the
\* case that mayNotExist is true and the error is PathNotFound or
\* PermissionDenied, returns no boolean: it throws that very error, unchanged.
C2_Propagates ==
    \A t \in Tasks :
        (Done(t) /\ RaisedError(t) # NoError
                 /\ ~(AskedMayNotExist(t)
                      /\ RaisedError(t).kind \in {"PathNotFound", "PermissionDenied"}))
        => result[t] = Throw(RaisedError(t))

\* mayNotExist is true and the identity cannot be resolved: the error surfaces
C2_Witness ==
    \E t \in Tasks :
        /\ Done(t) /\ AskedMayNotExist(t)
        /\ statGiven[t].ok
        /\ RaisedError(t).kind = "IdentityUnavailable"
        /\ result[t].type = "throw"
        /\ result[t].error.message = "Unable to get the user ID of the process!"

\* ------------------------------------------------------------ C7
\* C7: on a POSIX-like host, for a regular file with its metadata present, the
\* query decides with options.uid where it is present (0 included) and the
\* process's uid where it is not, and likewise and independently for gid; so
\* { uid: 0 } on a file of mode 0o100 owned by another user yields true
\* whatever the process's uid and gid are.
C7_Overrides ==
    \A t \in Tasks :
        (Done(t) /\ ~isOSWindows /\ statGiven[t].ok /\ statGiven[t].stat.isFile
                 /\ MetadataPresent(statGiven[t].stat)
                 /\ IdentityResolved(options[t]))
        => result[t] = Ret(ExecAllowed(statGiven[t].stat.mode,
                                       statGiven[t].stat.uid,
                                       statGiven[t].stat.gid,
                                       IdentityUid(options[t]),
                                       IdentityGid(options[t])))

\* { uid: 0 } alone, the process being neither the superuser nor the owner, with
\* another group than the file's
C7_Witness ==
    \E t \in Tasks :
        /\ Done(t) /\ ~isOSWindows /\ statGiven[t].ok /\ statGiven[t].stat.isFile
        /\ options[t].uid = 0 /\ options[t].gid = Null
        /\ procUid = 1 /\ procGid = 1
        /\ statGiven[t].stat.mode = 64
        /\ statGiven[t].stat.uid = 2 /\ statGiven[t].stat.gid = 0
        /\ result[t] = Ret(TRUE)

\* ------------------------------------------------------------ C9
\* C9: on the same path, options, host and stat outcome, isExecutable settles
\* as isExecutableSync completes: the same boolean, or the same error.
C9_SameAlgorithm ==
    \A t \in Tasks :
        Done(t) =>
            /\ fn[t] = "isExecutable"
               => result[t] = IsExecutableSync(filePath[t], options[t], statGiven[t])
            /\ fn[t] = "isExecutableSync"
               => result[t] = IsExecutableAfterAwait(filePath[t], options[t],
                                                     MayNotExistOf(options[t]),
                                                     statGiven[t])

\* the asynchronous variant turns a Deno.errors.NotFound into false
C9_Witness ==
    \E t \in Tasks :
        /\ Done(t) /\ fn[t] = "isExecutable"
        /\ AskedMayNotExist(t)
        /\ ~statGiven[t].ok /\ statGiven[t].error.denoNotFound
        /\ result[t] = Ret(FALSE)

\* ------------------------------------------------------------ C10
\* the outcome of task t's query run on its own with the inputs it was given
OutcomeAlone(t) ==
    IsExecutableAfterAwait(filePath[t], options[t], MayNotExistOf(options[t]),
                           statGiven[t])

\* what a step leaves alone: the process-wide configuration, and the
\* arguments of every query that is in flight
LeavesInputsAlone ==
    /\ envPathExt' = envPathExt
    /\ isOSWindows' = isOSWindows
    /\ procUid' = procUid /\ procGid' = procGid
    /\ \A t \in Tasks :
          pc[t] = "awaiting" => options'[t] = options[t] /\ filePath'[t] = filePath[t]
    /\ \A t \in Tasks :
          pc[t] = "done" => statGiven'[t] = statGiven[t] /\ result'[t] = result[t]

\* C10: with any number of asynchronous queries in flight and their stats
\* settling in any order, every query ends with the outcome it has when run
\* alone on its own inputs, and no step of any query changes the options or
\* path of a query in flight, a finished query's metadata and outcome, or the
\* process-wide extension list.
C10_Independent ==
    /\ [](\A t \in Tasks : Done(t) => result[t] = OutcomeAlone(t))
    /\ [][LeavesInputsAlone]_vars

\* one query has finished with false while another, called with other
\* options, is still suspended at its stat
C10_Witness ==
    \E t1 \in Tasks, t2 \in Tasks :
        /\ pc[t1] = "awaiting" /\ Done(t2)
        /\ options[t1] # options[t2]
        /\ mayNotExist[t1] # mayNotExist[t2]
        /\ result[t2] = Ret(FALSE)
====
